---------------------------- MODULE Spec2Model ----------------------------
(***************************************************************************)
(* A model of rustchain's ledger (src/src/blockchain.rs) and of the demo    *)
(* driver's use of it (src/src/main.rs).                                    *)
(*                                                                          *)
(* Option<T> is a sequence of length 0 (None) or 1 (Some(x)).               *)
(* Blake2b is modelled as a collision-free digest: the digest of an input   *)
(* is a value that determines the input.  u128 is scaled down to TokenBits  *)
(* bits; every overflow test and every wrap-around uses that width.         *)
(***************************************************************************)
EXTENDS Integers, Sequences, FiniteSets, TLC

\* ------------------------------------------------------------------ bounds

\* Width of the token integer of the model (u128 in the source).
TokenBits == 2

\* Largest number of transactions in a submitted block.
MaxTxs == 2

\* Largest number of committed blocks.
MaxBlocks == 2

\* Largest number of transactions in a genesis block of SpecGenesis.
GenesisTxs == 3

\* Largest number of add_transaction / set_unqnum calls on a block of SpecBlock.
MaxCalls == 3

\* The sequence number main.rs gives block2.
Block2Unqnum == 324

\* The sequence number main.rs gives block3.
Block3Unqnum == 95

U128_MAX == 2 ^ TokenBits - 1

Ids == {"John", "Mereep"}

\* Amounts of submitted CreateTokens / TransferTokens payloads.
Amounts == {1, U128_MAX}

\* ------------------------------------------------------------------ Option

None == <<>>

Some(x) == <<x>>

is_some(o) == o # <<>>

is_none(o) == o = <<>>

unwrap(o) == o[1]

\* ------------------------------------------------------------- hashing

\* Blake2b::new() ... finalize(): a collision-free digest of what was fed.
Blake2b(input) == [digest |-> input]

\* Each digest byte becomes the char of the same value: an injective
\* re-encoding of the byte vector as a String.
byte_vector_to_string(arr) == [chars |-> arr]

\* Transaction::calculate_hash: the digest of the Debug text of
\* (created_at, record, from, unqnum); the signature is not part of it.
TxCalculateHash(t) == Blake2b(<<t.created_at, t.record, t.from, t.unqnum>>)

\* Block::calculate_hash: every transaction's hash in order, then the Debug
\* text of (prev_hash, unqnum).
calculate_hash(b) ==
    Blake2b(<<[i \in 1 .. Len(b.transactions) |-> TxCalculateHash(b.transactions[i])],
              <<b.prev_hash, b.unqnum>>>>)

update_hash(b) == [b EXCEPT !.hash = Some(byte_vector_to_string(calculate_hash(b)))]

verify_own_hash(b) ==
    is_some(b.hash) /\ unwrap(b.hash) = byte_vector_to_string(calculate_hash(b))

\* ------------------------------------------------------------- Block

BlockNew(prev_hash) ==
    [hash |-> None, prev_hash |-> prev_hash, unqnum |-> 0, transactions |-> <<>>]

\* A faulty variant: the hash is taken before the number is written.
set_unqnum_stale(b, unqnum) == [update_hash(b) EXCEPT !.unqnum = unqnum]

set_unqnum(b, unqnum) == update_hash([b EXCEPT !.unqnum = unqnum])

add_transaction(b, transaction) ==
    update_hash([b EXCEPT !.transactions = Append(@, transaction)])

\* A faulty variant: the count is off by one.
get_transaction_count_off(b) == Len(b.transactions) + 1

get_transaction_count(b) == Len(b.transactions)

\* ------------------------------------------------------------- Transaction

CreateUserAccount(id) == [type |-> "CreateUserAccount", account |-> id]

ChangeStoreValue(k, v) == [type |-> "ChangeStoreValue", key |-> k, value |-> v]

TransferTokens(to, amount) == [type |-> "TransferTokens", to |-> to, amount |-> amount]

CreateTokens(receiver, amount) ==
    [type |-> "CreateTokens", receiver |-> receiver, amount |-> amount]

\* Transaction::new; now is the reading of SystemTime::now().
TransactionNew(from, transaction_data, unqnum, now) ==
    [unqnum |-> unqnum, from |-> from, created_at |-> now,
     record |-> transaction_data, signature |-> None]

is_signed(t) == is_some(t.signature)

\* A faulty variant: a signature that is present is taken for valid.
check_signature_accepts(t) == is_signed(t)

\* The verification is a stub: false with and without a signature.
check_signature(t) == IF ~is_signed(t) THEN FALSE ELSE FALSE

\* ------------------------------------------------------------- Account

AccountNew(account_type) == [store |-> <<>>, account_type |-> account_type, tokens |-> 0]

\* ------------------------------------------------------------- WorldState

\* The account map is a function from the identities that have an account.
get_user_ids(accts) == DOMAIN accts

ExecOk(accts) == [ok |-> TRUE, panic |-> FALSE, err |-> "", accounts |-> accts]

ExecErr(msg, accts) == [ok |-> FALSE, panic |-> FALSE, err |-> msg, accounts |-> accts]

\* An arithmetic panic of a build with overflow checks.
ExecPanic(accts) ==
    [ok |-> FALSE, panic |-> TRUE, err |-> "attempt to add with overflow", accounts |-> accts]

\* A faulty variant: an existing account is replaced by a new one.
create_account_overwrite(accts, id, account_type) ==
    ExecOk([x \in DOMAIN accts \cup {id} |->
               IF x = id THEN AccountNew(account_type) ELSE accts[x]])

create_account(accts, id, account_type) ==
    IF id \notin get_user_ids(accts)
    THEN ExecOk(accts @@ (id :> AccountNew(account_type)))
    ELSE ExecErr("User already exists!", accts)

\* A faulty variant: wrapping_add instead of checked_add.
checked_add_wrapping(a, b) == Some((a + b) % (2 ^ TokenBits))

checked_add(a, b) == IF a + b > U128_MAX THEN None ELSE Some(a + b)

checked_sub(a, b) == IF a < b THEN None ELSE Some(a - b)

\* A faulty variant: the genesis test of CreateTokens is missing.
TokenCreationAlways(is_initial) == TRUE

\* if !is_initial { return Err("Token creation is only available ...") }
TokenCreationAllowed(is_initial) == is_initial

\* A faulty variant: the sender is never looked up.
SenderMissingNever(t, accts, is_initial) == FALSE

\* if let Some(_) = get_account_by_id(&self.from) {} else if !is_initial
SenderMissing(t, accts, is_initial) == t.from \notin DOMAIN accts /\ ~is_initial

\* Transaction::execute.  checks is the build's overflow-checks setting: with
\* it `+=` panics on overflow, without it `+=` wraps.
execute(t, accts, is_initial, checks) ==
    IF SenderMissing(t, accts, is_initial)
    THEN ExecErr("Account does not exist", accts)
    ELSE CASE t.record.type = "CreateUserAccount" ->
                create_account(accts, t.record.account, "User")
           [] t.record.type = "CreateTokens" ->
                IF ~TokenCreationAllowed(is_initial)
                THEN ExecErr("Token creation is only available on initial creation", accts)
                ELSE IF t.record.receiver \in DOMAIN accts
                THEN IF checks /\ accts[t.record.receiver].tokens + t.record.amount > U128_MAX
                     THEN ExecPanic(accts)
                     ELSE ExecOk([accts EXCEPT ![t.record.receiver].tokens =
                                     (@ + t.record.amount) % (2 ^ TokenBits)])
                ELSE ExecErr("Receiver Account does not exist", accts)
           [] t.record.type = "TransferTokens" ->
                IF t.record.to \notin DOMAIN accts
                THEN ExecErr("Receiver Account does not exist!", accts)
                ELSE IF t.from \notin DOMAIN accts
                THEN ExecErr("That account does not exist!", accts)
                ELSE LET recv_tokens == accts[t.record.to].tokens
                         sender_tokens == accts[t.from].tokens
                         balance_recv_new == checked_add(recv_tokens, t.record.amount)
                         balance_sender_new == checked_sub(sender_tokens, t.record.amount)
                     IN  IF is_some(balance_recv_new) /\ is_some(balance_sender_new)
                         THEN LET w1 == [accts EXCEPT ![t.from].tokens =
                                            unwrap(balance_sender_new)]
                              IN  ExecOk([w1 EXCEPT ![t.record.to].tokens =
                                             unwrap(balance_recv_new)])
                         ELSE ExecErr("Overspent or Arithmetic error", accts)
           [] OTHER -> ExecErr("Unknown Transaction type (not implemented)", accts)

\* ------------------------------------------------------------- Blockchain

\* A faulty variant: the tip's hash is never read.
get_last_block_hash_none(blks) == None

get_last_block_hash(blks) ==
    IF blks = <<>> THEN None ELSE blks[Len(blks)].hash

\* A faulty variant: the loop goes on after a failed transaction and reports
\* the last failure.
RECURSIVE ExecuteFromGoesOn(_, _, _, _, _)
ExecuteFromGoesOn(txs, i, accts, is_genesis, checks) ==
    IF i > Len(txs)
    THEN [ok |-> TRUE, panic |-> FALSE, err |-> "", index |-> 0,
          accounts |-> accts, executed |-> i - 1]
    ELSE LET r == execute(txs[i], accts, is_genesis, checks)
             rest == ExecuteFromGoesOn(txs, i + 1, r.accounts, is_genesis, checks)
         IN  IF r.ok \/ ~rest.ok
             THEN rest
             ELSE [ok |-> FALSE, panic |-> r.panic, err |-> r.err, index |-> i,
                   accounts |-> rest.accounts, executed |-> rest.executed]

\* The loop of append_block over block.transactions from position i on: stops
\* at the first transaction that fails (or panics).  executed counts the
\* transactions handed to execute.
RECURSIVE ExecuteFrom(_, _, _, _, _)
ExecuteFrom(txs, i, accts, is_genesis, checks) ==
    IF i > Len(txs)
    THEN [ok |-> TRUE, panic |-> FALSE, err |-> "", index |-> 0,
          accounts |-> accts, executed |-> i - 1]
    ELSE LET r == execute(txs[i], accts, is_genesis, checks)
         IN  IF r.ok
             THEN ExecuteFrom(txs, i + 1, r.accounts, is_genesis, checks)
             ELSE [ok |-> FALSE, panic |-> r.panic, err |-> r.err, index |-> i,
                   accounts |-> r.accounts, executed |-> i]

\* A faulty variant: the emptiness test is inverted.
IsGenesisInverted(blks) == blks # <<>>

\* A faulty variant: every block is taken for the first one.
IsGenesisAlways(blks) == TRUE

\* let is_genesis = self.blocks.is_empty();
IsGenesis(blks) == blks = <<>>

\* A faulty variant: the comparison is inverted.
PointsToTipInverted(block, blks) == block.prev_hash # get_last_block_hash(blks)

\* The linkage test: block.prev_hash against get_last_block_hash().
PointsToTip(block, blks) == block.prev_hash = get_last_block_hash(blks)

\* A faulty variant: the snapshot is not put back.
RestoreStateKeepsLive(old_state, live) == live

\* self.accounts = old_state: the map after a failed transaction.
RestoreState(old_state, live) == old_state

AppendResult(status, msg, tx, cause, blks, accts, executed, undone) ==
    [status |-> status, msg |-> msg, tx |-> tx, cause |-> cause, blocks |-> blks,
     accounts |-> accts, executed |-> executed, undone |-> undone]

\* Blockchain::append_block on the ledger (blks, accts).  status is "Ok", "Err"
\* or "Panic" (the process aborts inside the call); tx is the 1-based index the
\* error message names; undone says that the restored snapshot differed from
\* the live map.
append_block(blks, accts, block, checks) ==
    LET is_genesis == IsGenesis(blks)
    IN  IF ~PointsToTip(block, blks)
        THEN AppendResult("Err", "The new block has to point to the previous block",
                          0, "", blks, accts, 0, FALSE)
        ELSE IF get_transaction_count(block) = 0
        THEN AppendResult("Err", "There has to be at least one transactio inside the block!",
                          0, "", blks, accts, 0, FALSE)
        ELSE LET old_state == accts
                 run == ExecuteFrom(block.transactions, 1, accts, is_genesis, checks)
             IN  IF run.panic
                 THEN AppendResult("Panic", run.err, run.index, run.err, blks,
                                   run.accounts, run.executed, FALSE)
                 ELSE IF ~run.ok
                 THEN AppendResult("Err", "Could not execute transaction", run.index,
                                   run.err, blks, RestoreState(old_state, run.accounts),
                                   run.executed, run.accounts # old_state)
                 ELSE AppendResult("Ok", "", 0, "", Append(blks, block), run.accounts,
                                   run.executed, FALSE)

ValidityResult(status, msg, block, tx, should_be, is) ==
    [status |-> status, msg |-> msg, block |-> block, tx |-> tx,
     should_be |-> should_be, is |-> is]

\* The first transaction of b, from position j on, that is signed and whose
\* signature does not check; 0 when there is none.
RECURSIVE FirstBadSignature(_, _)
FirstBadSignature(b, j) ==
    IF j > Len(b.transactions) THEN 0
    ELSE IF is_signed(b.transactions[j]) /\ ~check_signature(b.transactions[j]) THEN j
    ELSE FirstBadSignature(b, j + 1)

\* Blockchain::check_validity from the block at position k (block_num = k - 1)
\* on.  block and tx are the numbers the message prints; should_be and is are
\* the two hashes the linkage message prints, in its order.
RECURSIVE CheckFrom(_, _)
CheckFrom(blks, k) ==
    IF k > Len(blks) THEN ValidityResult("Ok", "", 0, 0, None, None)
    ELSE
    LET block == blks[k]
        block_num == k - 1
        bad == FirstBadSignature(block, 1)
        signatures ==
            IF bad # 0
            THEN ValidityResult("Err", "Transaction # for Block # has an invalid signature",
                                block_num + 1, bad, None, None)
            ELSE CheckFrom(blks, k + 1)
    IN  IF ~verify_own_hash(block)
        THEN ValidityResult("Err", "Stored hash for Block # does not match calculated hash",
                            block_num + 1, 0, None, None)
        ELSE IF block_num = 0
        THEN IF is_some(block.prev_hash)
             THEN ValidityResult("Err", "The genesis block has a previous hash set",
                                 0, 0, None, None)
             ELSE signatures
        ELSE IF is_none(block.prev_hash)
        THEN ValidityResult("Err", "Block # has no previous hash set",
                            block_num + 1, 0, None, None)
        ELSE IF is_none(blks[k - 1].hash)
        THEN ValidityResult("Panic", "called Option::unwrap() on a None value",
                            0, 0, None, None)
        ELSE LET prev_hash_proposed == unwrap(block.prev_hash)
                 prev_hash_actual == unwrap(blks[k - 1].hash)
             IN  IF block.prev_hash # blks[k - 1].hash
                 THEN ValidityResult("Err", "Block # is not connected to previous block",
                                     block_num, 0, Some(prev_hash_proposed),
                                     Some(prev_hash_actual))
                 ELSE signatures

check_validity(blks) == CheckFrom(blks, 1)

\* ------------------------------------------------------------- inputs

Payloads ==
    {CreateUserAccount(id) : id \in Ids}
        \cup {CreateTokens(id, a) : id \in Ids, a \in Amounts}
        \cup {TransferTokens(id, a) : id \in Ids, a \in Amounts}
        \cup {ChangeStoreValue("k", "v")}

\* What Transaction::new builds (sequence id 0 as in main.rs, one clock reading).
Transactions == {TransactionNew(from, p, 0, 0) : from \in Ids, p \in Payloads}

TxSeqs == UNION {[1 .. n -> Transactions] : n \in 0 .. MaxTxs}

RECURSIVE AddAll(_, _, _)
AddAll(b, txs, i) ==
    IF i > Len(txs) THEN b ELSE AddAll(add_transaction(b, txs[i]), txs, i + 1)

\* A direct write of the public field Block::unqnum: no re-hash.
WriteUnqnum(b, unqnum) == [b EXCEPT !.unqnum = unqnum]

Hows == {"add", "set_unqnum", "write_unqnum"}

\* The block a caller holds after Block::new(prev_hash), add_transaction for
\* each of txs and then nothing more, set_unqnum, or a write of the field.
BuiltBlock(prev_hash, txs, how) ==
    LET b == AddAll(BlockNew(prev_hash), txs, 1)
    IN  CASE how = "add" -> b
          [] how = "set_unqnum" -> set_unqnum(b, Block2Unqnum)
          [] how = "write_unqnum" -> WriteUnqnum(b, Block2Unqnum)

\* A hash string that is no committed block's: that of an empty block.
ForeignHash == byte_vector_to_string(calculate_hash(BlockNew(None)))

\* Blocks that point to the tip.
LinkedBlocks(blks) ==
    {BuiltBlock(get_last_block_hash(blks), txs, how) : txs \in TxSeqs, how \in Hows}

\* Blocks that point elsewhere: to nothing, or to a foreign hash.  They are
\* rejected before their transactions are looked at, so short ones suffice.
UnlinkedBlocks(blks) ==
    {BuiltBlock(prev_hash, txs, how) :
        prev_hash \in {None, Some(ForeignHash)} \ {get_last_block_hash(blks)},
        txs \in {t \in TxSeqs : Len(t) <= 1}, how \in Hows}

SubmittedBlocks(blks) == LinkedBlocks(blks) \cup UnlinkedBlocks(blks)

\* ------------------------------------------------------------- state

VARIABLES
    blocks,           \* chain.blocks
    accounts,         \* chain.accounts
    chain_attack,     \* main's clone of chain: None before it is made
    tampered,         \* None, or Some of the place main overwrote in the clone
    res,              \* the call whose result main holds, not yet printed
    overflow_checks,  \* the build: TRUE when `+=` panics on overflow
    aborted,          \* the process has panicked
    built             \* the block main is building: None before Block::new

vars == <<blocks, accounts, chain_attack, tampered, res, overflow_checks, aborted,
          built>>

\* No result is waiting to be printed.
Idle == [op |-> "idle"]

Init ==
    /\ blocks = <<>>
    /\ accounts = <<>>
    /\ chain_attack = None
    /\ tampered = None
    /\ res = Idle
    /\ overflow_checks \in BOOLEAN
    /\ aborted = FALSE
    /\ built = None

\* chain.append_block(block), while main is still building the chain.
AppendBlock ==
    /\ ~aborted
    /\ res = Idle
    /\ is_none(chain_attack)
    /\ Len(blocks) < MaxBlocks
    /\ \E block \in SubmittedBlocks(blocks) :
          LET r == append_block(blocks, accounts, block, overflow_checks)
          IN  /\ blocks' = r.blocks
              /\ accounts' = r.accounts
              /\ aborted' = (r.status = "Panic")
              /\ res' = [op |-> "append_block", status |-> r.status, msg |-> r.msg,
                         tx |-> r.tx, cause |-> r.cause, undone |-> r.undone]
    /\ UNCHANGED <<built, chain_attack, tampered, overflow_checks>>

TargetBlocks(target) ==
    IF target = "chain" THEN blocks ELSE unwrap(chain_attack).blocks

\* A faulty variant: the audit drops a chain it finds invalid.
CheckValidityPruning(target) ==
    /\ ~aborted
    /\ res = Idle
    /\ target = "chain_attack" => is_some(chain_attack)
    /\ LET r == check_validity(TargetBlocks(target))
       IN  /\ res' = [op |-> "check_validity", target |-> target, status |-> r.status,
                      msg |-> r.msg, block |-> r.block, tx |-> r.tx,
                      should_be |-> r.should_be, is |-> r.is]
           /\ aborted' = (r.status = "Panic")
           /\ blocks' = IF target = "chain" /\ r.status = "Err" THEN <<>> ELSE blocks
           /\ chain_attack' = IF target = "chain_attack" /\ r.status = "Err"
                                THEN Some([unwrap(chain_attack) EXCEPT !.blocks = <<>>])
                                ELSE chain_attack
    /\ UNCHANGED <<built, accounts, tampered, overflow_checks>>

\* chain.check_validity() or chain_attack.check_validity(): takes &self.
CheckValidity(target) ==
    /\ ~aborted
    /\ res = Idle
    /\ target = "chain_attack" => is_some(chain_attack)
    /\ LET r == check_validity(TargetBlocks(target))
       IN  /\ res' = [op |-> "check_validity", target |-> target, status |-> r.status,
                      msg |-> r.msg, block |-> r.block, tx |-> r.tx,
                      should_be |-> r.should_be, is |-> r.is]
           /\ aborted' = (r.status = "Panic")
    /\ UNCHANGED <<built, blocks, accounts, chain_attack, tampered, overflow_checks>>

\* let mut chain_attack = chain.clone();
CloneChain ==
    /\ ~aborted
    /\ res = Idle
    /\ is_none(chain_attack)
    /\ chain_attack' = Some([blocks |-> blocks, accounts |-> accounts])
    /\ UNCHANGED <<built, blocks, accounts, tampered, res, overflow_checks, aborted>>

\* The write main does into the clone: the amount of a stored TransferTokens is
\* overwritten in place; any other payload is left as it is.
TamperAmount(blks, i, j, amount) ==
    IF blks[i].transactions[j].record.type = "TransferTokens"
    THEN [blks EXCEPT ![i].transactions[j].record.amount = amount]
    ELSE blks

Tamper ==
    /\ ~aborted
    /\ res = Idle
    /\ is_some(chain_attack)
    /\ is_none(tampered)
    /\ \E i \in 1 .. Len(unwrap(chain_attack).blocks) :
       \E j \in 1 .. Len(unwrap(chain_attack).blocks[i].transactions) :
       \E amount \in 0 .. U128_MAX :
          /\ chain_attack' = Some([unwrap(chain_attack) EXCEPT
                 !.blocks = TamperAmount(@, i, j, amount)])
          /\ tampered' = Some([block |-> i, tx |-> j])
    /\ UNCHANGED <<built, blocks, accounts, res, overflow_checks, aborted>>

\* Block::update_hash on a block of the clone (pub(crate) for attacks).
AttackUpdateHash ==
    /\ ~aborted
    /\ res = Idle
    /\ is_some(tampered)
    /\ \E i \in 1 .. Len(unwrap(chain_attack).blocks) :
          chain_attack' = Some([unwrap(chain_attack) EXCEPT
              !.blocks[i] = update_hash(@)])
    /\ UNCHANGED <<built, blocks, accounts, tampered, res, overflow_checks, aborted>>

\* main prints the result it holds (println! of res, or of the call itself).
PrintResult ==
    /\ ~aborted
    /\ res # Idle
    /\ res' = Idle
    /\ UNCHANGED <<built, blocks, accounts, chain_attack, tampered, overflow_checks, aborted>>

Next ==
    \/ AppendBlock
    \/ CheckValidity("chain")
    \/ CheckValidity("chain_attack")
    \/ CloneChain
    \/ Tamper
    \/ AttackUpdateHash
    \/ PrintResult

Spec == Init /\ [][Next]_vars

\* ------------------------------------------------- execute on its own

AccountWithTokens(n) == [AccountNew("User") EXCEPT !.tokens = n]

\* Every account map over Ids: each is what a genesis block of CreateUserAccount
\* and CreateTokens transactions leaves, and what a WorldState may hold.
AccountMaps ==
    UNION {[S -> {AccountWithTokens(n) : n \in 0 .. U128_MAX}] : S \in SUBSET Ids}

InitExec ==
    /\ blocks = <<>>
    /\ accounts \in AccountMaps
    /\ chain_attack = None
    /\ tampered = None
    /\ res = Idle
    /\ overflow_checks \in BOOLEAN
    /\ aborted = FALSE
    /\ built = None

\* transaction.execute(world_state, is_initial) on the world state `accounts`.
\* res keeps the call's arguments and the map it was given.
ExecuteTx ==
    /\ ~aborted
    /\ \E t \in Transactions, is_initial \in BOOLEAN :
          LET r == execute(t, accounts, is_initial, overflow_checks)
          IN  /\ accounts' = r.accounts
              /\ aborted' = r.panic
              /\ res' = [op |-> "execute", t |-> t, is_initial |-> is_initial,
                         ok |-> r.ok, panic |-> r.panic, err |-> r.err,
                         before |-> accounts]
    /\ UNCHANGED <<built, blocks, chain_attack, tampered, overflow_checks>>

NextExec == ExecuteTx

SpecExec == InitExec /\ [][NextExec]_vars

\* ------------------------------------------------- the genesis block alone

GenesisTxSeqs == UNION {[1 .. n -> Transactions] : n \in 1 .. GenesisTxs}

\* chain.append_block(genesis) on the empty ledger, the genesis block built
\* with add_transaction as main does; a rejected block leaves the ledger empty
\* and main may submit another one.
AppendGenesis ==
    /\ ~aborted
    /\ res = Idle
    /\ blocks = <<>>
    /\ \E txs \in GenesisTxSeqs :
          LET r == append_block(blocks, accounts, BuiltBlock(None, txs, "add"),
                                overflow_checks)
          IN  /\ blocks' = r.blocks
              /\ accounts' = r.accounts
              /\ aborted' = (r.status = "Panic")
              /\ res' = [op |-> "append_block", status |-> r.status, msg |-> r.msg,
                         tx |-> r.tx, cause |-> r.cause, undone |-> r.undone]
    /\ UNCHANGED <<built, chain_attack, tampered, overflow_checks>>

NextGenesis ==
    \/ AppendGenesis
    \/ PrintResult

SpecGenesis == Init /\ [][NextGenesis]_vars

\* ------------------------------------------------- building a block

\* Sequence numbers given to set_unqnum: Block::new's own 0 and main's two.
Unqnums == {0, Block3Unqnum, Block2Unqnum}

\* let mut block = Block::new(prev_hash); calls counts the add_transaction and
\* set_unqnum calls made on it since.
NewBlock ==
    /\ built = None
    /\ \E prev_hash \in {None, Some(ForeignHash)} :
          built' = Some([block |-> BlockNew(prev_hash), calls |-> 0])
    /\ UNCHANGED <<blocks, accounts, chain_attack, tampered, res, overflow_checks,
                   aborted>>

\* block.add_transaction(transaction)
AddTransaction ==
    /\ is_some(built)
    /\ unwrap(built).calls < MaxCalls
    /\ \E transaction \in Transactions :
          built' = Some([block |-> add_transaction(unwrap(built).block, transaction),
                         calls |-> unwrap(built).calls + 1])
    /\ UNCHANGED <<blocks, accounts, chain_attack, tampered, res, overflow_checks,
                   aborted>>

\* block.set_unqnum(unqnum)
SetUnqnum ==
    /\ is_some(built)
    /\ unwrap(built).calls < MaxCalls
    /\ \E unqnum \in Unqnums :
          built' = Some([block |-> set_unqnum(unwrap(built).block, unqnum),
                         calls |-> unwrap(built).calls + 1])
    /\ UNCHANGED <<blocks, accounts, chain_attack, tampered, res, overflow_checks,
                   aborted>>

NextBlock ==
    \/ NewBlock
    \/ AddTransaction
    \/ SetUnqnum

SpecBlock == Init /\ [][NextBlock]_vars

\* ------------------------------------------------- signed transactions

\* A transaction whose private field signature holds a string.
Signed(t) == [t EXCEPT !.signature = Some("signature")]

\* Transactions sent by one identity, each without and with a signature.
SignableTransactions ==
    LET unsigned == {TransactionNew("John", p, 0, 0) : p \in Payloads}
    IN  unsigned \cup {Signed(t) : t \in unsigned}

SignableBlocks(blks) ==
    {BuiltBlock(get_last_block_hash(blks), txs, how) :
        txs \in UNION {[1 .. n -> SignableTransactions] : n \in 1 .. MaxTxs},
        how \in Hows}

\* chain.append_block(block) for a block whose transactions may carry a
\* signature; execute does not look at it.
AppendSigned ==
    /\ ~aborted
    /\ res = Idle
    /\ Len(blocks) < MaxBlocks
    /\ \E block \in SignableBlocks(blocks) :
          LET r == append_block(blocks, accounts, block, overflow_checks)
          IN  /\ blocks' = r.blocks
              /\ accounts' = r.accounts
              /\ aborted' = (r.status = "Panic")
              /\ res' = [op |-> "append_block", status |-> r.status, msg |-> r.msg,
                         tx |-> r.tx, cause |-> r.cause, undone |-> r.undone]
    /\ UNCHANGED <<built, chain_attack, tampered, overflow_checks>>

NextSigned ==
    \/ AppendSigned
    \/ CheckValidity("chain")
    \/ PrintResult

SpecSigned == Init /\ [][NextSigned]_vars

\* ------------------------------------------------------------- replay

\* The account map obtained by executing every transaction of blks[k..] in
\* order on accts, the first block of the chain as genesis.  ok is FALSE when
\* some transaction does not execute.
RECURSIVE ReplayFrom(_, _, _, _)
ReplayFrom(blks, k, accts, checks) ==
    IF k > Len(blks) THEN [ok |-> TRUE, accounts |-> accts]
    ELSE LET run == ExecuteFrom(blks[k].transactions, 1, accts, k = 1, checks)
         IN  IF run.ok THEN ReplayFrom(blks, k + 1, run.accounts, checks)
             ELSE [ok |-> FALSE, accounts |-> run.accounts]

Replay(blks, checks) == ReplayFrom(blks, 1, <<>>, checks)

\* ------------------------------------------------------------- properties

\* A state in which main may call chain.append_block.
CallState == res = Idle /\ is_none(chain_attack) /\ ~aborted

\* What append_block returns for `block` in the current state.
Outcome(block) == append_block(blocks, accounts, block, overflow_checks)

TipStoredHash == IF blocks = <<>> THEN None ELSE blocks[Len(blocks)].hash

AppendReturned == res.op = "append_block"

ExecutionFailed(r) == r.status = "Err" /\ r.msg = "Could not execute transaction"

\* C1 (rollback completeness): a call of append_block that returns the
\* execution error leaves the account map and the block sequence exactly as
\* they were before the call.
C1_RollbackComplete ==
    [][(res = Idle /\ res'.op = "append_block" /\ ExecutionFailed(res'))
          => (accounts' = accounts /\ blocks' = blocks)]_vars

\* A block was rejected at its second transaction after its first one had
\* changed the account map.
C1_Witness ==
    /\ AppendReturned
    /\ ExecutionFailed(res)
    /\ res.tx = 2
    /\ res.undone

\* C2 (self-consistency): right after a successful append_block,
\* check_validity succeeds.
C2_SelfConsistent ==
    (AppendReturned /\ res.status = "Ok") => check_validity(blocks).status = "Ok"

\* With every committed block's stored hash equal to its content hash, the
\* chain passes check_validity.
SelfConsistentWhenHashesVerify ==
    (\A i \in 1 .. Len(blocks) : verify_own_hash(blocks[i]))
        => check_validity(blocks).status = "Ok"

\* C3: a block whose prev_hash differs from the tip's stored hash (None for
\* the empty ledger) is rejected, none of its transactions is executed, and
\* blocks and accounts stay as they are.
C3_UnlinkedRejected ==
    CallState =>
        \A block \in SubmittedBlocks(blocks) :
            block.prev_hash # TipStoredHash =>
                /\ Outcome(block).status = "Err"
                /\ Outcome(block).executed = 0
                /\ Outcome(block).blocks = blocks
                /\ Outcome(block).accounts = accounts

\* The linkage error was returned by a ledger that holds a block.
C3_Witness ==
    /\ AppendReturned
    /\ res.status = "Err"
    /\ res.msg = "The new block has to point to the previous block"
    /\ Len(blocks) >= 1

\* C4: a block with no transaction is rejected and changes nothing, and every
\* committed block holds at least one transaction.
C4_EmptyRejected ==
    /\ \A i \in 1 .. Len(blocks) : Len(blocks[i].transactions) >= 1
    /\ CallState =>
          \A block \in SubmittedBlocks(blocks) :
              Len(block.transactions) = 0 =>
                  /\ Outcome(block).status = "Err"
                  /\ Outcome(block).blocks = blocks
                  /\ Outcome(block).accounts = accounts

\* The empty-block error was returned.
C4_Witness ==
    /\ AppendReturned
    /\ res.status = "Err"
    /\ res.msg = "There has to be at least one transactio inside the block!"

\* C5: while the process runs, the account map is the replay of the committed
\* blocks from the empty map, and that replay executes every transaction.
C5_AccountsAreReplay ==
    ~aborted =>
        /\ Replay(blocks, overflow_checks).ok
        /\ Replay(blocks, overflow_checks).accounts = accounts

\* A block was rolled back on a ledger that holds a block and accounts.
C5_Witness ==
    /\ AppendReturned
    /\ ExecutionFailed(res)
    /\ res.undone
    /\ Len(blocks) >= 1
    /\ accounts # <<>>

Linked ==
    /\ blocks # <<>> => blocks[1].prev_hash = None
    /\ \A i \in 2 .. Len(blocks) : blocks[i].prev_hash = blocks[i - 1].hash

AppendOnly ==
    /\ Len(blocks') >= Len(blocks)
    /\ Len(blocks') <= Len(blocks) + 1
    /\ SubSeq(blocks', 1, Len(blocks)) = blocks
    /\ (res = Idle /\ res'.op = "append_block" /\ res'.status = "Ok")
          => Len(blocks') = Len(blocks) + 1

\* C6 (chain linkage): the first block points to nothing, every later block
\* points to the stored hash of the block before it, and a step only ever adds
\* one block at the end, which a successful append_block does.
C6_ChainLinked == [](Linked) /\ [][AppendOnly]_vars

\* A second block was appended.
C6_Witness ==
    /\ AppendReturned
    /\ res.status = "Ok"
    /\ Len(blocks) = 2

IsTransfer(t) == t.record.type = "TransferTokens"

\* C7: every balance stays within the unsigned range, and a TransferTokens
\* between two existing accounts whose amount exceeds the sender's balance, or
\* would lift the receiver's balance past the maximum, fails with the
\* overspent/arithmetic error and leaves the map as it was.
C7_TransferChecked ==
    /\ \A id \in DOMAIN accounts : accounts[id].tokens \in 0 .. (2 ^ TokenBits - 1)
    /\ (/\ res.op = "execute"
        /\ IsTransfer(res.t)
        /\ res.t.from \in DOMAIN res.before
        /\ res.t.record.to \in DOMAIN res.before
        /\ \/ res.t.record.amount > res.before[res.t.from].tokens
           \/ res.before[res.t.record.to].tokens + res.t.record.amount
                 > 2 ^ TokenBits - 1)
          => /\ ~res.ok
             /\ ~res.panic
             /\ res.err = "Overspent or Arithmetic error"
             /\ accounts = res.before

\* A transfer the sender could afford was refused because the other account's
\* balance would overflow.
C7_Witness ==
    /\ res.op = "execute"
    /\ IsTransfer(res.t)
    /\ res.t.from \in DOMAIN res.before
    /\ res.t.record.to \in DOMAIN res.before
    /\ res.t.from # res.t.record.to
    /\ res.t.record.amount <= res.before[res.t.from].tokens
    /\ res.before[res.t.record.to].tokens + res.t.record.amount > 2 ^ TokenBits - 1
    /\ res.err = "Overspent or Arithmetic error"

HasCreateTokens(block) ==
    \E j \in 1 .. Len(block.transactions) :
        block.transactions[j].record.type = "CreateTokens"

\* C8: once the ledger holds a block, a submitted block with a CreateTokens
\* transaction is rejected, and blocks and accounts (so every balance) stay as
\* they are.
C8_NoTokensAfterGenesis ==
    (CallState /\ blocks # <<>>) =>
        \A block \in SubmittedBlocks(blocks) :
            HasCreateTokens(block) =>
                /\ Outcome(block).status = "Err"
                /\ Outcome(block).blocks = blocks
                /\ Outcome(block).accounts = accounts

\* A block was rejected with the token-creation error.
C8_Witness ==
    /\ AppendReturned
    /\ ExecutionFailed(res)
    /\ res.cause = "Token creation is only available on initial creation"
    /\ Len(blocks) >= 1

AttackBlocks == unwrap(chain_attack).blocks

TamperedBlock == unwrap(tampered).block

\* The clone's payload was changed at the tampered place and no stored hash of
\* the clone was recomputed.
TamperedOnly ==
    /\ is_some(chain_attack)
    /\ is_some(tampered)
    /\ AttackBlocks[TamperedBlock].transactions # blocks[TamperedBlock].transactions
    /\ \A i \in 1 .. Len(AttackBlocks) : AttackBlocks[i].hash = blocks[i].hash

HashMismatchAt(r, n) ==
    /\ r.status = "Err"
    /\ r.msg = "Stored hash for Block # does not match calculated hash"
    /\ r.block = n

\* What tamper detection promises of a tampered clone.
Detected ==
    /\ ~verify_own_hash(AttackBlocks[TamperedBlock])
    /\ HashMismatchAt(check_validity(AttackBlocks), TamperedBlock)
    /\ check_validity(blocks).status = "Ok"

\* C9 (tamper detection): after a committed block's payload is changed in a
\* clone without re-hashing, that block does not verify its own hash,
\* check_validity of the clone reports the hash mismatch of that block, and the
\* chain it was cloned from still passes check_validity.
C9_TamperDetected == TamperedOnly => Detected

\* The same, for a chain every block of which was committed with a stored hash
\* equal to its content hash.
TamperDetectedWhenHashesVerify ==
    (TamperedOnly /\ \A i \in 1 .. Len(blocks) : verify_own_hash(blocks[i])) => Detected

\* check_validity returns, and returns success on the empty ledger.
ValidityReturns ==
    /\ check_validity(blocks).status \in {"Ok", "Err"}
    /\ blocks = <<>> => check_validity(blocks).status = "Ok"
    /\ is_some(chain_attack) => check_validity(AttackBlocks).status \in {"Ok", "Err"}

\* C10: check_validity can be called in every ledger state and returns; it
\* returns success on the empty ledger; whatever it returns, the call leaves
\* the block sequence and the account map of both ledgers as they were.
C10_CheckValidityPure ==
    /\ [](ValidityReturns)
    /\ [][(res = Idle /\ res'.op = "check_validity")
             => (blocks' = blocks /\ accounts' = accounts
                 /\ chain_attack' = chain_attack)]_vars

\* check_validity reported the hash mismatch of a tampered clone of a chain
\* whose own blocks all verify.
C10_Witness ==
    /\ res.op = "check_validity"
    /\ res.target = "chain_attack"
    /\ TamperedOnly
    /\ HashMismatchAt(res, TamperedBlock)
    /\ \A i \in 1 .. Len(blocks) : verify_own_hash(blocks[i])

\* C11: outside genesis a transaction whose sender has no account fails with
\* the sender-missing error, whatever its payload, and the account map stays
\* as it was given; in genesis such a transaction never gets that error.
C11_SenderChecked ==
    (res.op = "execute" /\ res.t.from \notin DOMAIN res.before) =>
        IF res.is_initial
        THEN res.err # "Account does not exist"
        ELSE /\ ~res.ok
             /\ ~res.panic
             /\ res.err = "Account does not exist"
             /\ accounts = res.before

\* Outside genesis, a sender without an account asked for an account that did
\* not exist yet: the payload alone would have succeeded.
C11_Witness ==
    /\ res.op = "execute"
    /\ ~res.is_initial
    /\ res.t.from \notin DOMAIN res.before
    /\ res.t.record.type = "CreateUserAccount"
    /\ res.t.record.account \notin DOMAIN res.before
    /\ res.err = "Account does not exist"

\* C12: every append_block call returns Ok or Err to its caller; the process
\* is never aborted inside the call, whatever the block holds.
C12_AppendReturns == AppendReturned => (res.status \in {"Ok", "Err"} /\ ~aborted)

\* In a build without overflow checks every append_block call returns.
AppendReturnsWithoutOverflowChecks == ~overflow_checks => ~aborted

BuiltBlockNow == unwrap(built).block

\* C13 (stored-hash invariant): a block on which add_transaction or set_unqnum
\* was called at least once stores the hash of its present content and
\* verifies its own hash; a block fresh from Block::new stores no hash and does
\* not verify.
C13_StoredHashInvariant ==
    is_some(built) =>
        IF unwrap(built).calls = 0
        THEN is_none(BuiltBlockNow.hash) /\ ~verify_own_hash(BuiltBlockNow)
        ELSE /\ BuiltBlockNow.hash = Some(byte_vector_to_string(calculate_hash(BuiltBlockNow)))
             /\ verify_own_hash(BuiltBlockNow)

\* A block with a transaction whose sequence number was set and then set
\* again to another value.
C13_Witness ==
    /\ is_some(built)
    /\ unwrap(built).calls = 3
    /\ Len(BuiltBlockNow.transactions) = 1
    /\ BuiltBlockNow.unqnum = Block3Unqnum
    /\ verify_own_hash(BuiltBlockNow)

\* The run of the transactions of `block` before position j, in the current
\* state.
PrefixRun(block, j) ==
    ExecuteFrom(SubSeq(block.transactions, 1, j - 1), 1, accounts, IsGenesis(blocks),
                overflow_checks)

\* Transaction j of `block` is reached and asks for an account whose identity
\* has one by then (from a committed block or from this block).
DuplicateCreateAt(block, j) ==
    /\ PrefixRun(block, j).ok
    /\ block.transactions[j].record.type = "CreateUserAccount"
    /\ block.transactions[j].record.account \in DOMAIN PrefixRun(block, j).accounts

RejectedAt(block, j) ==
    /\ Outcome(block).status = "Err"
    /\ Outcome(block).tx = j
    /\ Outcome(block).blocks = blocks
    /\ Outcome(block).accounts = accounts

\* C14 as stated: a CreateUserAccount for an identity that has an account
\* fails with the already-exists error and the block is rolled back.
C14_DuplicateAlreadyExists ==
    CallState =>
        \A block \in LinkedBlocks(blocks) :
            \A j \in 1 .. Len(block.transactions) :
                DuplicateCreateAt(block, j) =>
                    /\ RejectedAt(block, j)
                    /\ Outcome(block).cause = "User already exists!"

\* The same, with the error the sender test gives when it comes first.
DuplicateRejected ==
    CallState =>
        \A block \in LinkedBlocks(blocks) :
            \A j \in 1 .. Len(block.transactions) :
                DuplicateCreateAt(block, j) =>
                    /\ RejectedAt(block, j)
                    /\ Outcome(block).cause =
                          IF SenderMissing(block.transactions[j],
                                           PrefixRun(block, j).accounts, IsGenesis(blocks))
                          THEN "Account does not exist"
                          ELSE "User already exists!"

\* A step keeps every identity; an append_block that returns an error keeps
\* the identity set as it was; one that returns success may add identities.
IdentitiesKept ==
    /\ DOMAIN accounts \subseteq DOMAIN accounts'
    /\ (res = Idle /\ res'.op = "append_block" /\ res'.status = "Err")
          => DOMAIN accounts' = DOMAIN accounts

\* C14 (amended): the identity set never loses a member, a failed append_block
\* leaves it unchanged, and a block with a CreateUserAccount for an identity
\* that has an account is rejected at that transaction and rolled back: with
\* the already-exists error when the sender passes the sender test, with the
\* sender-missing error when it does not.
C14_AccountLifecycle == [](DuplicateRejected) /\ [][IdentitiesKept]_vars

\* After genesis, a block created an account with its first transaction and
\* asked for the same identity again with its second.
C14_Witness ==
    /\ AppendReturned
    /\ ExecutionFailed(res)
    /\ res.cause = "User already exists!"
    /\ res.tx = 2
    /\ res.undone
    /\ Len(blocks) >= 1

\* The sum of the balances of the identities in S.
RECURSIVE SumOver(_, _)
SumOver(accts, S) ==
    IF S = {} THEN 0
    ELSE LET id == CHOOSE x \in S : TRUE
         IN  accts[id].tokens + SumOver(accts, S \ {id})

TotalSupply(accts) == SumOver(accts, DOMAIN accts)

\* C15: on a ledger that holds a block, an append_block call, accepted or
\* rejected, leaves the sum of all balances as it was.
C15_SupplyFixedAfterGenesis ==
    [][(res = Idle /\ res'.op = "append_block" /\ blocks # <<>>)
          => TotalSupply(accounts') = TotalSupply(accounts)]_vars

HasSelfTransfer(block) ==
    \E j \in 1 .. Len(block.transactions) :
        /\ IsTransfer(block.transactions[j])
        /\ block.transactions[j].record.to = block.transactions[j].from

\* The same for blocks none of whose transfers names its own sender as the
\* receiver.
SupplyFixedWithoutSelfTransfer ==
    (CallState /\ blocks # <<>>) =>
        \A block \in SubmittedBlocks(blocks) :
            ~HasSelfTransfer(block) =>
                TotalSupply(Outcome(block).accounts) = TotalSupply(accounts)

\* The execute call res describes was a TransferTokens that returned Ok.
TransferSucceeded == res.op = "execute" /\ IsTransfer(res.t) /\ res.ok

\* What a successful transfer of res.t.record.amount from res.t.from to
\* res.t.record.to promises of the map it leaves.
TransferExact ==
    /\ DOMAIN accounts = DOMAIN res.before
    /\ accounts[res.t.from].tokens = res.before[res.t.from].tokens - res.t.record.amount
    /\ accounts[res.t.record.to].tokens =
          res.before[res.t.record.to].tokens + res.t.record.amount
    /\ \A id \in DOMAIN accounts :
          /\ id \notin {res.t.from, res.t.record.to} => accounts[id] = res.before[id]
          /\ accounts[id].store = res.before[id].store
          /\ accounts[id].account_type = res.before[id].account_type

\* C16: a successful TransferTokens{to, amount} sent by S leaves S's balance
\* amount lower and to's balance amount higher than before, and changes no
\* other account and not the set of accounts, for every S and to.
C16_TransferExact == TransferSucceeded => TransferExact

\* The same for a receiver that is not the sender.
TransferExactWhenDistinct ==
    (TransferSucceeded /\ res.t.from # res.t.record.to) => TransferExact

\* What execute returns for transaction j of `block` on the map the
\* transactions before it leave.
ResultAt(block, j) ==
    execute(block.transactions[j], PrefixRun(block, j).accounts, IsGenesis(blocks),
            overflow_checks)

\* Transaction j is the first of `block` that execute refuses.
FirstFailureAt(block, j) ==
    /\ PrefixRun(block, j).ok
    /\ ~ResultAt(block, j).ok
    /\ ~ResultAt(block, j).panic

\* C17: when a transaction of a submitted block fails, append_block's error
\* names the 1-based position of the first failing transaction and carries
\* that transaction's reason, and no transaction after it is executed.
C17_FirstFailureReported ==
    CallState =>
        \A block \in LinkedBlocks(blocks) :
            \A j \in 1 .. Len(block.transactions) :
                FirstFailureAt(block, j) =>
                    /\ ExecutionFailed(Outcome(block))
                    /\ Outcome(block).tx = j
                    /\ Outcome(block).cause = ResultAt(block, j).err
                    /\ Outcome(block).executed = j

\* On a ledger that holds a block, a block was rejected at its first
\* transaction, a transfer the sender could not afford.
C17_Witness ==
    /\ AppendReturned
    /\ ExecutionFailed(res)
    /\ res.tx = 1
    /\ res.cause = "Overspent or Arithmetic error"
    /\ Len(blocks) >= 1

LinkageError(r) ==
    r.status = "Err" /\ r.msg = "Block # is not connected to previous block"

\* The first block of blks, counted from 1, whose prev_hash is not the stored
\* hash of the block before it.
FirstUnlinked(blks) ==
    CHOOSE k \in 2 .. Len(blks) :
        /\ blks[k].prev_hash # blks[k - 1].hash
        /\ \A i \in 2 .. (k - 1) : blks[i].prev_hash = blks[i - 1].hash

\* C18: the linkage error of check_validity names the offending block by its
\* 1-based index, as the hash-mismatch error does, gives the stored hash of
\* the block before it as "should be" and the offending block's prev_hash as
\* "is".
C18_LinkageErrorReport ==
    (res.op = "check_validity" /\ LinkageError(res)) =>
        LET blks == TargetBlocks(res.target)
            k == FirstUnlinked(blks)
        IN  /\ res.block = k
            /\ res.should_be = blks[k - 1].hash
            /\ res.is = blks[k].prev_hash

\* The run of all transactions of `block` on the current map with the given
\* genesis mode.
RunAs(block, is_genesis) ==
    ExecuteFrom(block.transactions, 1, accounts, is_genesis, overflow_checks)

GenesisOnlyErrors ==
    {"Token creation is only available on initial creation", "Account does not exist"}

\* Every submitted block that reaches execution is executed in genesis mode
\* exactly when the ledger holds no block: its outcome is that of the run with
\* is_genesis = (blocks = <<>>), and on the empty ledger no block is refused
\* for creating tokens or for a sender without account.
GenesisModeByEmptiness ==
    CallState =>
        /\ blocks = <<>> => accounts = <<>>
        /\ \A block \in LinkedBlocks(blocks) :
              Len(block.transactions) >= 1 =>
                  /\ (Outcome(block).status = "Ok") = RunAs(block, blocks = <<>>).ok
                  /\ Outcome(block).tx = RunAs(block, blocks = <<>>).index
                  /\ Outcome(block).cause = RunAs(block, blocks = <<>>).err
                  /\ blocks = <<>> => Outcome(block).cause \notin GenesisOnlyErrors

\* A rejected first block leaves the ledger empty, and a ledger that holds a
\* block never becomes empty again.
GenesisOnlyOnce ==
    /\ (res = Idle /\ res'.op = "append_block" /\ res'.status = "Err" /\ blocks = <<>>)
          => (blocks' = <<>> /\ accounts' = <<>>)
    /\ blocks # <<>> => blocks' # <<>>

\* C19: genesis mode is decided by the ledger being empty at the call and by
\* nothing else; a rejected first block leaves the ledger empty, so the next
\* block is executed in genesis mode again; once a block is appended no later
\* call is in genesis mode.
C19_GenesisByEmptiness == [](GenesisModeByEmptiness) /\ [][GenesisOnlyOnce]_vars

\* A first block was rejected in execution after it had changed the account
\* map; the ledger is empty again and would accept a block that creates
\* tokens.
C19_Witness ==
    /\ AppendReturned
    /\ ExecutionFailed(res)
    /\ res.undone
    /\ blocks = <<>>
    /\ accounts = <<>>
    /\ \E block \in LinkedBlocks(blocks) :
          HasCreateTokens(block) /\ Outcome(block).status = "Ok"

\* The places <<block, transaction>>, counted from 1, of the transactions of
\* blks that carry a signature.
SignedPlaces(blks) ==
    {<<k, j>> \in (1 .. Len(blks)) \X (1 .. MaxTxs) :
        j <= Len(blks[k].transactions) /\ is_some(blks[k].transactions[j].signature)}

\* The first of them in block order, then transaction order.
FirstSignedPlace(blks) ==
    CHOOSE p \in SignedPlaces(blks) :
        \A q \in SignedPlaces(blks) : p[1] < q[1] \/ (p[1] = q[1] /\ p[2] <= q[2])

\* Every block's stored hash is its content hash and the blocks are linked:
\* checks (a) and (b) of check_validity.
PassesHashAndLinkage(blks) ==
    /\ \A i \in 1 .. Len(blks) : verify_own_hash(blks[i])
    /\ blks # <<>> => blks[1].prev_hash = None
    /\ \A i \in 2 .. Len(blks) : blks[i].prev_hash = blks[i - 1].hash

SignatureError(r, k, j) ==
    /\ r.status = "Err"
    /\ r.msg = "Transaction # for Block # has an invalid signature"
    /\ r.block = k
    /\ r.tx = j

\* C20: a transaction without signature is unsigned, one with a signature is
\* signed, and check_signature is false for both; on a ledger that passes the
\* hash and linkage checks check_validity fails exactly when some transaction
\* is signed, and its error names the first signed transaction and its block,
\* both counted from 1, wherever unsigned transactions stand.
C20_SignedNeverValid ==
    /\ \A k \in 1 .. Len(blocks) : \A j \in 1 .. Len(blocks[k].transactions) :
          /\ is_signed(blocks[k].transactions[j]) = (blocks[k].transactions[j].signature # None)
          /\ ~check_signature(blocks[k].transactions[j])
    /\ PassesHashAndLinkage(blocks) =>
          IF SignedPlaces(blocks) = {}
          THEN check_validity(blocks).status = "Ok"
          ELSE SignatureError(check_validity(blocks), FirstSignedPlace(blocks)[1],
                              FirstSignedPlace(blocks)[2])

\* check_validity named the second transaction of the second block, the only
\* signed one of a ledger with three unsigned transactions before it.
C20_Witness ==
    /\ res.op = "check_validity"
    /\ SignatureError(res, 2, 2)
    /\ Len(blocks[1].transactions) = 2
    /\ SignedPlaces(blocks) = {<<2, 2>>}

=============================================================================
